---- MODULE Spec2Model ----
(***************************************************************************)
(* Shrimp-Shop-System: the inventory and package (traceability batch)      *)
(* subsystem.  Products (shrimp_panel.models.ShrimpProduct), packages      *)
(* (export_panel.models.ProductPackage) and the request handlers that      *)
(* write them: AddProductView.post, EditProductView.post,                  *)
(* DeleteProductView.post and CreatePackageView.post; purchase requests    *)
(* (shrimp_panel.models.RequestsProduct) and the admin site.               *)
(*                                                                         *)
(* Decimal amounts are integers counting thousandths of a kilogram, so a   *)
(* DecimalField with decimal_places=2 stores multiples of 10 and a POSTed  *)
(* "0.005" is 5.  Each request is handled by a worker; workers interleave  *)
(* at their database statements.  Everything a handler computes between    *)
(* two database statements is local to it and is part of one action.       *)
(***************************************************************************)
EXTENDS Integers, FiniteSets, Sequences, TLC

\* Number of request workers that handle package creations at the same time.
NumWorkers == 2
\* Number of product rows the model lets AddProductView create.
MaxProducts == 2
\* Number of package rows the model lets CreatePackageView create.
MaxPackages == 2

\* Number of purchase requests the model lets RequestProductView create.
MaxRequests == 2

\* Number of days the model lets the clock advance.
MaxDays == 1
\* Number of times the model lets the QR image of one package be rendered.
MaxRenders == 2
\* timezone.timedelta(days=365)
ShelfLifeDays == 365

Workers == 1..NumWorkers
ProductIds == 1..MaxProducts
RequestIds == 1..MaxRequests
PackageIds == 1..MaxPackages
\* Dates are day numbers; the days the clock shows.
Days == 0..MaxDays

\* The values uuid.uuid4() is cut down to; repeated draws are possible.
BatchNumbers == {"BATCH-AAAAAAAAAA", "BATCH-BBBBBBBBBB"}
SupportCodes == {"AAAAAAAA", "BBBBBBBB"}

\* The registered companies (authentication.models), by primary key; one of
\* each kind.  The two tables number their rows independently, so the first
\* farming company and the first exporting company have the same id.
FarmingCompanies == {1}
ExportingCompanies == {1}
\* request.session.get('company_id') when the session holds none.
NoCompany == 0

\* request.session: flushed, or as CompanyLoginView leaves it.
NoSession == [company_id |-> NoCompany, company_type |-> "none"]
Sessions ==
    {NoSession}
        \cup [company_id : FarmingCompanies, company_type : {"shrimp"}]
        \cup [company_id : ExportingCompanies, company_type : {"export"}]

\* The texts a client POSTs as package_weight, package_count and weight.
PostedPackageWeights == {"abc", "-0.01", "0", "0.005", "0.01"}
PostedPackageCounts == {"abc", "0", "1", "2"}
\* Package weights with two and with three decimal places.
PostedScaledWeights == {"0.005", "0.01", "0.010"}
PostedNewWeights == {"abc", "0.005", "0.02"}
PostedEditWeights == {"abc", "-0.01", "0.02"}
\* The texts a client POSTs as product_name: the name products are added
\* with, and the names an edit posts.
PostedNewNames == {"Vannamei"}
PostedNames == {"Vannamei", "Tiger"}
NoProductSelected == 0
PostedProductIds == ProductIds \cup {NoProductSelected}

NoRow == [exists |-> FALSE]
NoTx == [open |-> FALSE]
NoRequest == [active |-> FALSE]
NoResponse == [outcome |-> "none", available |-> 0]
NoPayload == <<>>

VARIABLES
    products,       \* ShrimpProduct table: id -> row (product_name, weight, support_code, company)
    packages,       \* ProductPackage table: the committed rows
    nextProductId,  \* AutoField of ShrimpProduct
    tx,             \* the open transaction.atomic() block and its uncommitted writes
    pc,             \* each worker's position in CreatePackageView.post
    req,            \* each worker's locals: shrimp_product, package_weight, package_count, company
    response,       \* the last response CreatePackageView.post returned
    initialWeight,  \* history: the weight each product was created with
    applied,        \* history: batch numbers of the packages whose deduction is committed
    requests,       \* RequestsProduct table: pk -> row (buyer, product, owner, status)
    nextRequestId,  \* AutoField of RequestsProduct
    today,          \* timezone.now().date()
    renders,        \* history: how many times each package's QR image was rendered
    payloads,       \* history: the QR payload last built for each package
    companies,      \* ShrimpFarmingCompany and ExportingCompany tables: the stored ids
    nextPackageId   \* AutoField of ProductPackage

requestVars == <<requests, nextRequestId>>
officeVars == <<today, renders, payloads>>

vars ==
    <<products, packages, nextProductId, tx, pc, req, response, initialWeight,
      applied, requests, nextRequestId, today, renders, payloads, companies,
      nextPackageId>>

----------------------------------------------------------------------------
(* Conversions *)

\* decimal.Decimal(text): the value in thousandths, or decimal.InvalidOperation.
ParseDecimal(text) ==
    CASE text = "-0.01" -> [ok |-> TRUE, val |-> -10]
      [] text = "0" -> [ok |-> TRUE, val |-> 0]
      [] text = "0.005" -> [ok |-> TRUE, val |-> 5]
      [] text = "0.01" -> [ok |-> TRUE, val |-> 10]
      [] text = "0.010" -> [ok |-> TRUE, val |-> 10]
      [] text = "0.02" -> [ok |-> TRUE, val |-> 20]
      [] OTHER -> [ok |-> FALSE, val |-> 0]

\* The number of decimal places decimal.Decimal(text) keeps (the negated
\* exponent): str() of the value prints that many.
DecimalPlaces(text) ==
    CASE text \in {"0.005", "0.010"} -> 3
      [] text \in {"-0.01", "0.01", "0.02"} -> 2
      [] OTHER -> 0

\* int(text): the value, or ValueError.
ParseInt(text) ==
    CASE text = "0" -> [ok |-> TRUE, val |-> 0]
      [] text = "1" -> [ok |-> TRUE, val |-> 1]
      [] text = "2" -> [ok |-> TRUE, val |-> 2]
      [] OTHER -> [ok |-> FALSE, val |-> 0]

\* What a DecimalField(decimal_places=2) column keeps of a value on save:
\* the value rounded half-even to a multiple of 0.01.
Quantize(x) ==
    LET q == x \div 10
        r == x % 10
    IN  IF r < 5 THEN 10 * q
        ELSE IF r > 5 THEN 10 * (q + 1)
        ELSE IF q % 2 = 0 THEN 10 * q
        ELSE 10 * (q + 1)

----------------------------------------------------------------------------
(* Variants of the checks and of the insert, for comparison *)

\* The quantity check if it let a zero through.
NegativeOnly(package_weight, package_count) ==
    package_weight < 0 \/ package_count < 0

\* The stock check if it refused a total equal to the stored weight.
StockNotAbove(total_weight_needed, weight) ==
    total_weight_needed >= weight

\* The batch number column without its unique constraint.
BatchNumberUnconstrained(batch_number) ==
    FALSE

\* A save that cuts a new batch number whether or not the row has one.
BatchNumberAlwaysGenerated(batch_number, generated) ==
    generated

\* A save that cuts a new support code whether or not the row has one.
SupportCodeAlwaysGenerated(support_code, generated) ==
    generated

\* A regeneration that writes the whole row with the model's default
\* quantity instead of the qr_code column alone.
RegeneratedWithDefaults(k) ==
    [k EXCEPT !.qr_code = TRUE, !.quantity = 1]

\* A deletion that leaves the packages that reference the deleted rows.
PackagesKept(gone_products, gone_farming, gone_exporting) ==
    packages

\* A deletion that leaves the purchase requests that reference the deleted
\* rows.
RequestsKept(gone_products, gone_farming, gone_exporting) ==
    requests

\* A purchase request that is stored as approved from the start.
NewRequestApproved(buyer_company, product_id) ==
    [exists |-> TRUE,
     buyer_company |-> buyer_company,
     product |-> product_id,
     owner_company |-> products[product_id].company,
     support_code |-> products[product_id].support_code,
     status |-> "approved"]

\* A status view that puts a request that is already decided back in the
\* queue.
RequestReopened(row, status) ==
    [row EXCEPT !.status = IF @ = "pending" THEN status ELSE "pending"]

\* A session lookup that reads company_id alone and not company_type.
CompanyFromSessionId(session) ==
    IF session.company_id # NoCompany
          /\ session.company_id \in companies.exporting
    THEN session.company_id
    ELSE NoCompany

\* The insert outside any transaction: the row reaches the table at once.
InsertPackageAutocommit(row) ==
    [stored |-> packages \cup {row}, pending |-> row]

----------------------------------------------------------------------------
(* Helpers of the handlers *)

\* CreatePackageView.get_company_from_session: the exporting company of the
\* session, or NoCompany.
ExportCompanyFromSession(session) ==
    IF session.company_id # NoCompany /\ session.company_type = "export"
          /\ session.company_id \in companies.exporting
    THEN session.company_id
    ELSE NoCompany

\* CompanyLogoutView.get: request.session.flush() leaves a session without
\* company_id and company_type.
Flush(session) == NoSession

\* AddProductView.get_company_from_session: the farming company of the
\* session, or NoCompany.
ShrimpCompanyFromSession(session) ==
    IF session.company_id # NoCompany /\ session.company_type = "shrimp"
          /\ session.company_id \in companies.farming
    THEN session.company_id
    ELSE NoCompany

\* if package_weight <= 0 or package_count <= 0
NonPositive(package_weight, package_count) ==
    package_weight <= 0 \/ package_count <= 0

\* total_weight_needed = package_weight * Decimal(package_count)
TotalWeightNeeded(package_weight, package_count) ==
    package_weight * package_count

\* if total_weight_needed > shrimp_product.weight
InsufficientStock(total_weight_needed, weight) ==
    total_weight_needed > weight

\* unique=True on ProductPackage.batch_number: the INSERT raises IntegrityError.
BatchNumberTaken(batch_number) ==
    \E k \in packages : k.batch_number = batch_number

\* unique=True on ShrimpProduct.support_code: the INSERT raises IntegrityError.
SupportCodeTaken(support_code) ==
    \E p \in ProductIds :
        products[p].exists /\ products[p].support_code = support_code

\* ProductPackage.save: if not self.batch_number, the batch number is cut
\* from uuid4; a row that has one keeps it.
BatchNumberOnSave(batch_number, generated) ==
    IF batch_number = "" THEN generated ELSE batch_number

\* ShrimpProduct.save and ShrimpProductAdmin.save_model: if not
\* self.support_code, the support code is cut from uuid4.
SupportCodeOnSave(support_code, generated) ==
    IF support_code = "" THEN generated ELSE support_code

\* ShrimpProduct.save applied to a row.
SavedProduct(row, generated) ==
    [row EXCEPT !.support_code = SupportCodeOnSave(row.support_code, generated)]

\* unique=True on ShrimpProduct.support_code, for the write of a row that
\* has an id: whether another row holds the code.
SupportCodeOfAnother(product_id, support_code) ==
    \E p \in ProductIds :
        /\ p # product_id /\ products[p].exists
        /\ products[p].support_code = support_code

\* The UPDATE of a product row: unique=True on support_code refuses a code
\* that another row holds, and then nothing is written.
StoreProduct(product_id, row) ==
    IF SupportCodeOfAnother(product_id, row.support_code)
    THEN products
    ELSE [products EXCEPT ![product_id] = row]

\* generate_qr_code on a stored package: the image is attached and only the
\* qr_code column is written (save(update_fields=['qr_code'])).
RegeneratedPackage(k) == [k EXCEPT !.qr_code = TRUE]

\* A DecimalField(decimal_places=2) value as it is read from the table: two
\* decimal places.
StoredDecimal(x) == [val |-> x, places |-> 2]

\* qr_data of generate_qr_code: the fields in the order of the text, read
\* from the package object k, its package_weight attribute and its
\* shrimp_product object; total_weight = self.package_weight * self.quantity
\* keeps the places of package_weight.  Companies stand for their names; the
\* shrimp type, which no handler of the model writes, is left out.
QrData(k, package_weight, shrimp_product) ==
    <<k.batch_number,
      shrimp_product.product_name,
      k.farming_company,
      k.exporting_company,
      package_weight,
      k.quantity,
      [val |-> package_weight.val * k.quantity, places |-> package_weight.places],
      k.production_date,
      k.expiration_date,
      shrimp_product.support_code>>

\* timezone.now().date() + timezone.timedelta(days=365)
ExpirationDate(now) == now + ShelfLifeDays

\* ProductPackage.objects.create(...) inside "with transaction.atomic()": the
\* row is written in the open transaction and reaches the table on commit.
InsertPackage(row) ==
    [stored |-> packages, pending |-> row]

\* shrimp_product.weight -= total_weight_needed; shrimp_product.save(): the
\* value written is computed from the weight this request read.
DeductedWeight(read_weight, total_weight_needed) ==
    Quantize(read_weight - total_weight_needed)

\* qr_data of generate_qr_code on a package read from the table, as the QR
\* code action of the admin site calls it.
StoredQrData(k) ==
    QrData(k, StoredDecimal(k.package_weight), products[k.shrimp_product])

\* The foreign keys of a package row to the two company tables, as the
\* database checks them at commit.  The product the row references is
\* written by the same transaction.
ForeignKeysHold(k) ==
    /\ k.farming_company \in companies.farming
    /\ k.exporting_company \in companies.exporting

\* messages.error / render of CreatePackageView.post, or the exception that
\* leaves it.
Respond(outcome, available) ==
    [outcome |-> outcome, available |-> available]

\* Workers between the stock check and the end of their transaction.
InFlight == {w \in Workers : pc[w] # "idle"}

----------------------------------------------------------------------------
(* State after migration: empty tables, no request in progress *)

Init ==
    /\ products = [p \in ProductIds |-> NoRow]
    /\ packages = {}
    /\ nextProductId = 1
    /\ tx = NoTx
    /\ pc = [w \in Workers |-> "idle"]
    /\ req = [w \in Workers |-> NoRequest]
    /\ response = NoResponse
    /\ initialWeight = [p \in ProductIds |-> 0]
    /\ applied = {}
    /\ requests = [r \in RequestIds |-> NoRow]
    /\ nextRequestId = 1
    /\ today = 0
    /\ renders = [i \in PackageIds |-> 0]
    /\ payloads = [i \in PackageIds |-> NoPayload]
    /\ companies = [farming |-> FarmingCompanies, exporting |-> ExportingCompanies]
    /\ nextPackageId = 1

----------------------------------------------------------------------------
(* shrimp_panel.views *)

\* AddProductView.post: the session check, ShrimpProductForm validation (a
\* decimal with at most two places), then ShrimpProduct.save with the support
\* code cut from uuid4.  A support code that is already stored makes the
\* INSERT raise.
AddProduct(session, product_name, weightText, support_code) ==
    LET company == ShrimpCompanyFromSession(session)
        weight == ParseDecimal(weightText)
    IN  /\ tx = NoTx
        /\ UNCHANGED <<companies, nextPackageId, packages, tx, pc, req, response, applied, requestVars, officeVars>>
        /\ IF \/ company = NoCompany
              \/ ~weight.ok \/ weight.val % 10 # 0
              \/ SupportCodeTaken(support_code)
           THEN UNCHANGED <<products, nextProductId, initialWeight>>
           ELSE /\ nextProductId <= MaxProducts
                /\ products' =
                       [products EXCEPT ![nextProductId] =
                           [exists |-> TRUE, product_name |-> product_name,
                            weight |-> weight.val,
                            support_code |-> SupportCodeOnSave("", support_code),
                            company |-> company]]
                /\ nextProductId' = nextProductId + 1
                /\ initialWeight' = [initialWeight EXCEPT ![nextProductId] = weight.val]

\* EditProductView.post: no session check and no validation; the posted
\* name is stored and the posted weight is stored as the column keeps it.  A
\* text that is no decimal makes save raise, and nothing is written.
EditProduct(product_id, product_name, weightText) ==
    LET weight == ParseDecimal(weightText)
    IN  /\ tx = NoTx
        /\ UNCHANGED <<companies, nextPackageId, packages, nextProductId, tx, pc, req, response,
                       initialWeight, applied, requestVars, officeVars>>
        /\ IF ~products[product_id].exists \/ ~weight.ok
           THEN UNCHANGED products
           ELSE \E generated \in SupportCodes :
                    products' =
                        StoreProduct(product_id,
                            SavedProduct([products[product_id] EXCEPT
                                             !.product_name = product_name,
                                             !.weight = Quantize(weight.val)],
                                         generated))

----------------------------------------------------------------------------
(* export_panel.views.CreatePackageView.post *)

\* The request ends here: the response is returned and the locals are dropped.
Finish(w, outcome, available) ==
    /\ response' = Respond(outcome, available)
    /\ pc' = [pc EXCEPT ![w] = "idle"]
    /\ req' = [req EXCEPT ![w] = NoRequest]

\* Lines 180-208: what the handler decides from the session, the posted
\* texts and the product row it reads: the response it returns, or "proceed"
\* when the request passes the stock check.
PostDecision(session, product_id, weightText, countText) ==
    LET company == ExportCompanyFromSession(session)
        package_weight == ParseDecimal(weightText)
        package_count == ParseInt(countText)
        shrimp_product == products[product_id]
        total == TotalWeightNeeded(package_weight.val, package_count.val)
    IN  IF company = NoCompany
        THEN Respond("login", 0)
        ELSE IF product_id = NoProductSelected
        THEN Respond("no_product_selected", 0)
        ELSE IF ~package_weight.ok \/ ~package_count.ok
        THEN Respond("unhandled_invalid_input", 0)
        ELSE IF NonPositive(package_weight.val, package_count.val)
        THEN Respond("invalid_quantity", 0)
        ELSE IF ~shrimp_product.exists
        THEN Respond("not_found", 0)
        ELSE IF InsufficientStock(total, shrimp_product.weight)
        THEN Respond("insufficient_stock", shrimp_product.weight)
        ELSE Respond("proceed", 0)

\* Lines 180-208 as a step: nothing is written; a request that is refused
\* ends with its response, a request that passes keeps the product row as it
\* read it and goes on to the transaction.
PostBegin(w, session, product_id, weightText, countText) ==
    LET decision == PostDecision(session, product_id, weightText, countText)
    IN  /\ pc[w] = "idle"
        /\ UNCHANGED <<companies, nextPackageId, products, packages, nextProductId, tx, initialWeight,
                       applied, requestVars, officeVars>>
        /\ IF decision.outcome # "proceed"
           THEN Finish(w, decision.outcome, decision.available)
           ELSE /\ nextPackageId + Cardinality(InFlight) <= MaxPackages
                /\ pc' = [pc EXCEPT ![w] = "checked"]
                /\ req' = [req EXCEPT ![w] =
                       [active |-> TRUE,
                        product_id |-> product_id,
                        shrimp_product |-> products[product_id],
                        company |-> ExportCompanyFromSession(session),
                        package_weight |-> ParseDecimal(weightText).val,
                        places |-> DecimalPlaces(weightText),
                        package_count |-> ParseInt(countText).val]]
                /\ UNCHANGED response

\* Lines 210-220 with ProductPackage.save and generate_qr_code: the
\* transaction opens, the batch number is cut from uuid4, the row is inserted
\* (a batch number that is already stored makes the INSERT raise) and the QR
\* image is rendered and attached.  rendered = FALSE is qrcode or the file
\* storage raising.  Either exception leaves the atomic block, which rolls
\* back, and then the handler.  The keyword arguments of create read the
\* clock twice, for production_date and then for expiration_date; midnight
\* is the date changing between the two reads.
TxCreatePackage(w, batch_number, rendered, midnight) ==
    /\ pc[w] = "checked"
    /\ tx = NoTx
    /\ midnight => today < MaxDays
    /\ today' = IF midnight THEN today + 1 ELSE today
    /\ UNCHANGED <<companies, nextPackageId, products, nextProductId, initialWeight, applied, requestVars>>
    /\ LET id == nextPackageId
           row ==
               [id |-> id,
                batch_number |-> BatchNumberOnSave("", batch_number),
                production_date |-> today,
                expiration_date |-> ExpirationDate(today'),
                shrimp_product |-> req[w].product_id,
                farming_company |-> req[w].shrimp_product.company,
                exporting_company |-> req[w].company,
                package_weight |-> Quantize(req[w].package_weight),
                quantity |-> req[w].package_count,
                qr_code |-> FALSE]
           written == InsertPackage(row)
           qr_data ==
               QrData(row,
                      [val |-> req[w].package_weight, places |-> req[w].places],
                      req[w].shrimp_product)
       IN  IF BatchNumberTaken(batch_number)
           THEN /\ Finish(w, "unhandled_integrity_error", 0)
                /\ UNCHANGED <<packages, tx, renders, payloads>>
           ELSE IF ~rendered
           THEN /\ Finish(w, "unhandled_qr_failed", 0)
                /\ packages' = written.stored
                /\ UNCHANGED <<tx, renders, payloads>>
           ELSE /\ packages' = written.stored
                /\ renders' = [renders EXCEPT ![id] = 1]
                /\ payloads' = [payloads EXCEPT ![id] = qr_data]
                /\ tx' = [open |-> TRUE, owner |-> w,
                          package |-> [written.pending EXCEPT !.qr_code = TRUE]]
                /\ pc' = [pc EXCEPT ![w] = "created"]
                /\ UNCHANGED <<req, response>>

\* Lines 223-226: the weight computed from the row this request read is
\* written with every other field of that row (save updates the row, and
\* inserts it when no row has its id), the atomic block exits and both
\* writes reach the tables; the summary is rendered.  The foreign keys are
\* checked when the block exits: a row that references a company no longer
\* stored makes the commit raise IntegrityError, and so does the insert of a
\* product row whose support code another row has taken; both writes are
\* then undone.
TxDeductCommit(w) ==
    /\ pc[w] = "created"
    /\ tx.open /\ tx.owner = w
    /\ tx' = NoTx
    /\ UNCHANGED <<companies, nextProductId, initialWeight, requestVars, officeVars>>
    /\ IF /\ ForeignKeysHold(tx.package)
          /\ ~SupportCodeOfAnother(req[w].product_id,
                                   req[w].shrimp_product.support_code)
       THEN /\ packages' = packages \cup {tx.package}
            /\ \E generated \in SupportCodes :
                   products' =
                       [products EXCEPT ![req[w].product_id] =
                           SavedProduct(
                               [req[w].shrimp_product EXCEPT !.weight =
                                   DeductedWeight(req[w].shrimp_product.weight,
                                                  TotalWeightNeeded(req[w].package_weight,
                                                                    req[w].package_count))],
                               generated)]
            /\ applied' = applied \cup {tx.package.batch_number}
            /\ nextPackageId' = nextPackageId + 1
            /\ Finish(w, "created", 0)
       ELSE /\ Finish(w, "unhandled_integrity_error", 0)
            /\ UNCHANGED <<products, packages, applied, nextPackageId>>

----------------------------------------------------------------------------

\* A request of a session without an exporting company, or with no product
\* selected, returns before it reads package_weight and package_count: the
\* inputs such a request never reads are not enumerated.
Post(w) ==
    \/ \E session \in Sessions :
            /\ ExportCompanyFromSession(session) = NoCompany
            /\ PostBegin(w, session, NoProductSelected, "0", "0")
    \/ \E session \in Sessions, product_id \in PostedProductIds,
          weightText \in PostedPackageWeights, countText \in PostedPackageCounts :
            /\ ExportCompanyFromSession(session) # NoCompany
            /\ product_id = NoProductSelected => weightText = "0" /\ countText = "0"
            /\ PostBegin(w, session, product_id, weightText, countText)

Next ==
    \/ \E session \in Sessions, product_name \in PostedNewNames,
          weightText \in PostedNewWeights, support_code \in SupportCodes :
            AddProduct(session, product_name, weightText, support_code)
    \/ \E product_id \in ProductIds, product_name \in PostedNewNames,
          weightText \in PostedEditWeights :
            EditProduct(product_id, product_name, weightText)
    \/ \E w \in Workers : Post(w)
    \/ \E w \in Workers, batch_number \in BatchNumbers, rendered \in BOOLEAN :
            TxCreatePackage(w, batch_number, rendered, FALSE)
    \/ \E w \in Workers : TxDeductCommit(w)

Spec == Init /\ [][Next]_vars

\* Package creations alone: products are created but never edited, and the
\* posted package weights have at most two decimal places, so nothing but
\* CreatePackageView.post writes a weight and no amount is rounded.
PostTwoPlaces(w) ==
    \/ \E session \in Sessions :
            /\ ExportCompanyFromSession(session) = NoCompany
            /\ PostBegin(w, session, NoProductSelected, "0", "0")
    \/ \E session \in Sessions, product_id \in PostedProductIds,
          weightText \in PostedPackageWeights, countText \in PostedPackageCounts :
            /\ ExportCompanyFromSession(session) # NoCompany
            /\ product_id = NoProductSelected => weightText = "0" /\ countText = "0"
            /\ ParseDecimal(weightText).val % 10 = 0
            /\ PostBegin(w, session, product_id, weightText, countText)

NextPackaging ==
    \/ \E session \in Sessions, product_name \in PostedNewNames,
          weightText \in PostedNewWeights, support_code \in SupportCodes :
            AddProduct(session, product_name, weightText, support_code)
    \/ \E w \in Workers : PostTwoPlaces(w)
    \/ \E w \in Workers, batch_number \in BatchNumbers, rendered \in BOOLEAN :
            TxCreatePackage(w, batch_number, rendered, FALSE)
    \/ \E w \in Workers : TxDeductCommit(w)

SpecPackaging == Init /\ [][NextPackaging]_vars


----------------------------------------------------------------------------
(* Purchase requests: page.views.RequestProductView and the status views of
   shrimp_panel.views *)

\* get_object_or_404(ShrimpFarmingCompany, id=company_id) followed by
\* get_object_or_404(RequestsProduct, pk=pk, owner_company=farming_company):
\* whether both rows are found.  Only company_id is read from the session.
OwnedRequestFound(session, pk) ==
    /\ session.company_id # NoCompany
    /\ session.company_id \in companies.farming
    /\ requests[pk].exists
    /\ requests[pk].owner_company = session.company_id

\* The statuses of STATUS_CHOICES.
StatusChoices == {"pending", "approved", "rejected"}

\* RequestsProduct.objects.create(buyer_company=..., product=product,
\* owner_company=product.company, support_code=product.support_code,
\* status='pending')
NewRequest(buyer_company, product_id) ==
    [exists |-> TRUE,
     buyer_company |-> buyer_company,
     product |-> product_id,
     owner_company |-> products[product_id].company,
     support_code |-> products[product_id].support_code,
     status |-> "pending"]

\* request_obj.status = status; request_obj.save()
RequestWithStatus(row, status) ==
    [row EXCEPT !.status = status]

\* RequestProductView.post: an exporting-company session and an existing
\* product; the request is stored as pending with the product's owner and
\* support code.
RequestProduct(session, product_id) ==
    /\ tx = NoTx
    /\ UNCHANGED <<companies, nextPackageId, products, packages, nextProductId, tx, pc, req, response,
                   initialWeight, applied, officeVars>>
    /\ IF \/ ExportCompanyFromSession(session) = NoCompany
          \/ ~products[product_id].exists
       THEN UNCHANGED requestVars
       ELSE /\ nextRequestId <= MaxRequests
            /\ requests' =
                   [requests EXCEPT ![nextRequestId] =
                       NewRequest(ExportCompanyFromSession(session), product_id)]
            /\ nextRequestId' = nextRequestId + 1

\* update_request_status, as called by confirm_request ('approved') and
\* reject_request ('rejected').
UpdateRequestStatus(session, pk, status) ==
    /\ tx = NoTx
    /\ UNCHANGED <<companies, nextPackageId, products, packages, nextProductId, tx, pc, req, response,
                   initialWeight, applied, nextRequestId, officeVars>>
    /\ IF OwnedRequestFound(session, pk)
       THEN requests' = [requests EXCEPT ![pk] = RequestWithStatus(@, status)]
       ELSE UNCHANGED requests

\* delete_request.
DeleteRequest(session, pk) ==
    /\ tx = NoTx
    /\ UNCHANGED <<companies, nextPackageId, products, packages, nextProductId, tx, pc, req, response,
                   initialWeight, applied, nextRequestId, officeVars>>
    /\ IF OwnedRequestFound(session, pk)
       THEN requests' = [requests EXCEPT ![pk] = NoRow]
       ELSE UNCHANGED requests

\* No other worker is handling a package creation.
OneAtATime(w) == \A v \in Workers : v # w => pc[v] = "idle"

\* Products, purchase requests and package creations together; package
\* creations are handled one after another and the posted package weights
\* have at most two decimal places.
NextRequests ==
    \/ \E session \in Sessions, product_name \in PostedNewNames,
          weightText \in PostedNewWeights, support_code \in SupportCodes :
            AddProduct(session, product_name, weightText, support_code)
    \/ \E session \in Sessions, product_id \in ProductIds :
            RequestProduct(session, product_id)
    \/ \E session \in Sessions, pk \in RequestIds,
          status \in {"approved", "rejected"} :
            UpdateRequestStatus(session, pk, status)
    \/ \E session \in Sessions, pk \in RequestIds : DeleteRequest(session, pk)
    \/ \E w \in Workers : OneAtATime(w) /\ PostTwoPlaces(w)
    \/ \E w \in Workers, batch_number \in BatchNumbers, rendered \in BOOLEAN :
            TxCreatePackage(w, batch_number, rendered, FALSE)
    \/ \E w \in Workers : TxDeductCommit(w)

SpecRequests == Init /\ [][NextRequests]_vars

\* The purchase requests alone, while products are added and edited under
\* any posted name.
NextRequestLife ==
    \/ \E session \in Sessions, product_name \in PostedNewNames,
          weightText \in PostedNewWeights, support_code \in SupportCodes :
            AddProduct(session, product_name, weightText, support_code)
    \/ \E product_id \in ProductIds, product_name \in PostedNames,
          weightText \in PostedEditWeights :
            EditProduct(product_id, product_name, weightText)
    \/ \E session \in Sessions, product_id \in ProductIds :
            RequestProduct(session, product_id)
    \/ \E session \in Sessions, pk \in RequestIds,
          status \in {"approved", "rejected"} :
            UpdateRequestStatus(session, pk, status)
    \/ \E session \in Sessions, pk \in RequestIds : DeleteRequest(session, pk)

SpecRequestLife == Init /\ [][NextRequestLife]_vars

----------------------------------------------------------------------------
(* The admin site (export_panel.admin, shrimp_panel.admin) and the clock *)

\* The dates an administrator enters in the package form.
PostedDates == Days

\* The date changes.
Tick ==
    /\ today < MaxDays
    /\ today' = today + 1
    /\ UNCHANGED <<companies, nextPackageId, products, packages, nextProductId, tx, pc, req, response,
                   initialWeight, applied, requestVars, renders, payloads>>

\* ShrimpProductAdmin: the change form with a new weight.  The form accepts a
\* decimal with at most two places; save_model generates a support code only
\* for a row that has none.
AdminSaveProduct(product_id, weightText, generated) ==
    LET weight == ParseDecimal(weightText)
    IN  /\ tx = NoTx
        /\ UNCHANGED <<companies, nextPackageId, packages, nextProductId, tx, pc, req, response,
                       initialWeight, applied, requestVars, officeVars>>
        /\ IF ~products[product_id].exists \/ ~weight.ok \/ weight.val % 10 # 0
           THEN UNCHANGED products
           ELSE products' =
                    StoreProduct(product_id,
                        SavedProduct(
                            [products[product_id] EXCEPT
                                !.weight = weight.val,
                                !.support_code =
                                    SupportCodeOnSave(@, generated)],
                            generated))

\* ProductPackageAdmin: the change form with new dates.  batch_number is a
\* read-only field; the form has no check that relates the two dates.
\* ProductPackage.save keeps the batch number the row has and generates no QR
\* code for a row that has one.
AdminChangePackage(id, production_date, expiration_date, generated) ==
    /\ tx = NoTx
    /\ UNCHANGED <<companies, nextPackageId, products, nextProductId, tx, pc, req, response,
                   initialWeight, applied, requestVars, officeVars>>
    /\ IF \E k \in packages : k.id = id
       THEN LET k == CHOOSE x \in packages : x.id = id
                saved == [k EXCEPT
                             !.production_date = production_date,
                             !.expiration_date = expiration_date,
                             !.batch_number = BatchNumberOnSave(@, generated)]
            IN  IF \E other \in packages \ {k} :
                       other.batch_number = saved.batch_number
                THEN UNCHANGED packages
                ELSE packages' = (packages \ {k}) \cup {saved}
       ELSE UNCHANGED packages

\* ProductPackageAdmin.generate_qr_codes on the selected packages: each one
\* is rendered and saved in turn, whether or not it has a QR code.  done is
\* the packages handled before a rendering raised (all of them if none did).
GenerateQrCodes(queryset, done) ==
    /\ tx = NoTx
    /\ done \subseteq queryset
    /\ \A k \in done : renders[k.id] < MaxRenders
    /\ packages' = (packages \ done) \cup {RegeneratedPackage(k) : k \in done}
    /\ renders' = [i \in PackageIds |->
                      IF \E k \in done : k.id = i
                      THEN renders[i] + 1 ELSE renders[i]]
    /\ payloads' = [i \in PackageIds |->
                       IF \E k \in done : k.id = i
                       THEN StoredQrData(CHOOSE k \in done : k.id = i)
                       ELSE payloads[i]]
    /\ UNCHANGED <<companies, nextPackageId, products, nextProductId, tx, pc, req, response,
                   initialWeight, applied, requestVars, today>>

\* Package creations handled one after another with posted weights of at
\* most two decimal places, as the three specifications below take them.
CreatePackageSteps(clockReads) ==
    \/ \E w \in Workers : OneAtATime(w) /\ PostTwoPlaces(w)
    \/ \E w \in Workers, batch_number \in BatchNumbers,
          rendered \in BOOLEAN, midnight \in clockReads :
            TxCreatePackage(w, batch_number, rendered, midnight)
    \/ \E w \in Workers : TxDeductCommit(w)

\* Package creations while the clock advances, and the package form of the
\* admin site.
NextDates ==
    \/ \E session \in Sessions, product_name \in PostedNewNames,
          weightText \in PostedNewWeights, support_code \in SupportCodes :
            AddProduct(session, product_name, weightText, support_code)
    \/ CreatePackageSteps(BOOLEAN)
    \/ Tick
    \/ \E id \in PackageIds, production_date \in PostedDates,
          expiration_date \in PostedDates, generated \in BatchNumbers :
            AdminChangePackage(id, production_date, expiration_date, generated)

SpecDates == Init /\ [][NextDates]_vars

\* Every way a product row is saved: creation, edit, the admin form and the
\* deduction of a package creation.
NextProducts ==
    \/ \E session \in Sessions, product_name \in PostedNewNames,
          weightText \in PostedNewWeights, support_code \in SupportCodes :
            AddProduct(session, product_name, weightText, support_code)
    \/ \E product_id \in ProductIds, product_name \in PostedNewNames,
          weightText \in PostedEditWeights :
            EditProduct(product_id, product_name, weightText)
    \/ \E product_id \in ProductIds, weightText \in PostedNewWeights,
          generated \in SupportCodes :
            AdminSaveProduct(product_id, weightText, generated)
    \/ CreatePackageSteps({FALSE})

SpecProducts == Init /\ [][NextProducts]_vars

\* Every way a stored package row is saved again: the admin form (with a
\* production date and the expiration date that follows from it) and the QR
\* code action.
NextArtifacts ==
    \/ \E session \in Sessions, product_name \in PostedNewNames,
          weightText \in PostedNewWeights, support_code \in SupportCodes :
            AddProduct(session, product_name, weightText, support_code)
    \/ CreatePackageSteps({FALSE})
    \/ \E id \in PackageIds, production_date \in PostedDates,
          generated \in BatchNumbers :
            AdminChangePackage(id, production_date,
                               ExpirationDate(production_date), generated)
    \/ \E queryset \in SUBSET packages, done \in SUBSET packages :
            GenerateQrCodes(queryset, done)

SpecArtifacts == Init /\ [][NextArtifacts]_vars

\* Package creations with weights of two and of three decimal places.
PostScaled(w) ==
    \E session \in Sessions, product_id \in ProductIds,
       weightText \in PostedScaledWeights, countText \in {"1", "2"} :
        /\ ExportCompanyFromSession(session) # NoCompany
        /\ PostBegin(w, session, product_id, weightText, countText)

\* The QR payloads: package creations handled one after another and the QR
\* code action of the admin site.
NextPayload ==
    \/ \E session \in Sessions, product_name \in PostedNewNames,
          weightText \in PostedNewWeights, support_code \in SupportCodes :
            AddProduct(session, product_name, weightText, support_code)
    \/ \E w \in Workers : OneAtATime(w) /\ PostScaled(w)
    \/ \E w \in Workers, batch_number \in BatchNumbers, rendered \in BOOLEAN :
            TxCreatePackage(w, batch_number, rendered, FALSE)
    \/ \E w \in Workers : TxDeductCommit(w)
    \/ \E queryset \in SUBSET packages, done \in SUBSET packages :
            GenerateQrCodes(queryset, done)

SpecPayload == Init /\ [][NextPayload]_vars

----------------------------------------------------------------------------
(* Deletions: shrimp_panel.views.DeleteProductView and the delete action of
   the admin site on the company tables *)

\* on_delete=models.CASCADE on shrimp_product, farming_company and
\* exporting_company of ProductPackage: the packages left when the given
\* products and companies are deleted.
CascadePackages(gone_products, gone_farming, gone_exporting) ==
    {k \in packages :
        /\ k.shrimp_product \notin gone_products
        /\ k.farming_company \notin gone_farming
        /\ k.exporting_company \notin gone_exporting}

\* on_delete=models.CASCADE on product, owner_company and buyer_company of
\* RequestsProduct: the purchase requests left when the given products and
\* companies are deleted.
CascadeRequests(gone_products, gone_farming, gone_exporting) ==
    [r \in RequestIds |->
        IF /\ requests[r].exists
           /\ \/ requests[r].product \in gone_products
              \/ requests[r].owner_company \in gone_farming
              \/ requests[r].buyer_company \in gone_exporting
        THEN NoRow
        ELSE requests[r]]

\* on_delete=models.CASCADE on ShrimpProduct.company: the products deleted
\* with the given farming companies.
ProductsOfCompanies(gone_farming) ==
    {p \in ProductIds : products[p].exists /\ products[p].company \in gone_farming}

\* DeleteProductView.post: the product with the id of the URL is looked up
\* and deleted with the rows that reference it.  The session is not read.
DeleteProduct(session, product_id) ==
    /\ tx = NoTx
    /\ UNCHANGED <<companies, nextPackageId, nextProductId, tx, pc, req,
                   response, initialWeight, applied, nextRequestId, officeVars>>
    /\ IF ~products[product_id].exists
       THEN UNCHANGED <<products, packages, requests>>
       ELSE /\ products' = [products EXCEPT ![product_id] = NoRow]
            /\ packages' = CascadePackages({product_id}, {}, {})
            /\ requests' = CascadeRequests({product_id}, {}, {})

\* ShrimpFarmingCompanyAdmin: the delete action on a farming company; its
\* products go with it, and the packages and requests of both.
AdminDeleteFarmingCompany(company) ==
    /\ tx = NoTx
    /\ company \in companies.farming
    /\ UNCHANGED <<nextPackageId, nextProductId, tx, pc, req, response,
                   initialWeight, applied, nextRequestId, officeVars>>
    /\ LET gone == ProductsOfCompanies({company})
       IN  /\ companies' = [companies EXCEPT !.farming = @ \ {company}]
           /\ products' = [p \in ProductIds |->
                              IF p \in gone THEN NoRow ELSE products[p]]
           /\ packages' = CascadePackages(gone, {company}, {})
           /\ requests' = CascadeRequests(gone, {company}, {})

\* ExportingCompanyAdmin: the delete action on an exporting company, with
\* its packages and its purchase requests.
AdminDeleteExportingCompany(company) ==
    /\ tx = NoTx
    /\ company \in companies.exporting
    /\ UNCHANGED <<products, nextPackageId, nextProductId, tx, pc, req,
                   response, initialWeight, applied, nextRequestId, officeVars>>
    /\ companies' = [companies EXCEPT !.exporting = @ \ {company}]
    /\ packages' = CascadePackages({}, {}, {company})
    /\ requests' = CascadeRequests({}, {}, {company})

\* Products, purchase requests and package creations while products and
\* companies are deleted.
NextDeletion ==
    \/ \E session \in Sessions, product_name \in PostedNewNames,
          weightText \in PostedNewWeights, support_code \in SupportCodes :
            AddProduct(session, product_name, weightText, support_code)
    \/ \E session \in Sessions, product_id \in ProductIds :
            RequestProduct(session, product_id)
    \/ CreatePackageSteps({FALSE})
    \/ \E session \in Sessions, product_id \in ProductIds :
            DeleteProduct(session, product_id)
    \/ \E company \in FarmingCompanies : AdminDeleteFarmingCompany(company)
    \/ \E company \in ExportingCompanies : AdminDeleteExportingCompany(company)

SpecDeletion == Init /\ [][NextDeletion]_vars

\* Package creations handled one after another while products are edited
\* under any posted name, with a positive weight.
NextFrame ==
    \/ \E session \in Sessions, product_name \in PostedNewNames,
          weightText \in PostedNewWeights, support_code \in SupportCodes :
            AddProduct(session, product_name, weightText, support_code)
    \/ \E product_id \in ProductIds, product_name \in PostedNames,
          weightText \in PostedEditWeights :
            /\ ParseDecimal(weightText).val > 0
            /\ EditProduct(product_id, product_name, weightText)
    \/ CreatePackageSteps({FALSE})

SpecFrame == Init /\ [][NextFrame]_vars

----------------------------------------------------------------------------
(* Properties *)

PackagesOf(p) == {k \in packages : k.shrimp_product = p}

PackageTotal(k) == k.package_weight * k.quantity

RECURSIVE SumTotals(_)
SumTotals(S) ==
    IF S = {} THEN 0
    ELSE LET k == CHOOSE x \in S : TRUE
         IN  PackageTotal(k) + SumTotals(S \ {k})

\* C1 (conservation): with package creation the only writer of a product's
\* weight, the stored weight is the weight the product was created with minus
\* the sum of package_weight * quantity over the packages created for it, and
\* it is not negative.
Conservation ==
    \A p \in ProductIds :
        products[p].exists =>
            /\ products[p].weight = initialWeight[p] - SumTotals(PackagesOf(p))
            /\ products[p].weight >= 0

\* C2 (no oversell): of the requests for the same total T against a product
\* created with weight W, at most floor(W / T) create a package.
NoOversell ==
    \A p \in ProductIds :
        \A k \in PackagesOf(p) :
            PackageTotal(k) > 0 =>
                Cardinality({j \in PackagesOf(p) : PackageTotal(j) = PackageTotal(k)})
                    <= initialWeight[p] \div PackageTotal(k)

\* C3 (non-negative stock): every stored product weight is >= 0.
WeightNonNegative ==
    \A p \in ProductIds : products[p].exists => products[p].weight >= 0

\* C4 (atomic check and deduction): when a request writes its deduction, the
\* stored weight is still the weight the request compared its total with, so
\* no other request's write took effect in between.
CheckAndDeductAtomic ==
    [][\A w \in Workers :
          TxDeductCommit(w) =>
              products[req[w].product_id].weight = req[w].shrimp_product.weight]_vars

\* The steps in which CreatePackageView.post returns without a package: a
\* response other than "created" is returned, or a request in progress ends.
FailedCreation ==
    /\ response'.outcome # "created"
    /\ \/ response' # response
       \/ \E w \in Workers : pc[w] # "idle" /\ pc'[w] = "idle"

\* In every state the committed package rows are exactly those whose
\* deduction has been written to their product.
RowIffDeduction ==
    {k.batch_number : k \in packages} = applied

\* A request that fails at validation, at the insert or at the QR step leaves
\* no package row and no change of any product.
FailureLeavesNoTrace ==
    FailedCreation => packages' = packages /\ products' = products

\* C5 (all-or-nothing): a package row is stored if and only if its deduction
\* has been applied, in every state, and a failed creation leaves neither a
\* row nor a changed weight.
AllOrNothing ==
    []RowIffDeduction /\ [][FailureLeavesNoTrace]_vars

\* C5 witness: a creation failed at the QR step while an earlier package,
\* with its deduction, stays stored.
AllOrNothingWitness ==
    /\ response.outcome = "unhandled_qr_failed"
    /\ \E k \in packages : k.batch_number \in applied

\* The sessions of a logged-in exporter, and the posted texts that are numbers.
ExporterSessions == {s \in Sessions : ExportCompanyFromSession(s) # NoCompany}
NumericWeights == {t \in PostedPackageWeights : ParseDecimal(t).ok}
NumericCounts == {t \in PostedPackageCounts : ParseInt(t).ok}

\* In every state, a request for more than the product's stored weight is
\* answered with the insufficient-stock error carrying that weight, and a
\* request for exactly the stored weight passes the stock check.
StockDecision ==
    \A session \in ExporterSessions, p \in ProductIds,
       weightText \in NumericWeights, countText \in NumericCounts :
        LET package_weight == ParseDecimal(weightText).val
            package_count == ParseInt(countText).val
            total == package_weight * package_count
            decision == PostDecision(session, p, weightText, countText)
        IN  products[p].exists /\ package_weight > 0 /\ package_count > 0 =>
                /\ total > products[p].weight =>
                       decision = Respond("insufficient_stock", products[p].weight)
                /\ total = products[p].weight => decision.outcome = "proceed"

\* The step that returns the insufficient-stock error reports the weight of a
\* stored product and changes no table, transaction or request in progress.
InsufficientStockChangesNothing ==
    response' # response /\ response'.outcome = "insufficient_stock" =>
        /\ \E p \in ProductIds :
               products[p].exists /\ products[p].weight = response'.available
        /\ UNCHANGED <<products, packages, tx, pc, req, applied>>

\* C6 (insufficient stock): a total strictly greater than the product's
\* current weight is refused with the insufficient-stock error that reports
\* the current weight, with no package created and no weight changed; a total
\* equal to the current weight is accepted.
InsufficientStockRefused ==
    []StockDecision /\ [][InsufficientStockChangesNothing]_vars

\* C6 witness: after a package has been created, a request for more than
\* what is left has been refused with the remaining weight reported.
InsufficientStockRefusedWitness ==
    /\ response.outcome = "insufficient_stock"
    /\ \E k \in packages :
           /\ products[k.shrimp_product].weight = response.available
           /\ response.available < initialWeight[k.shrimp_product]

NonPositiveDecision ==
    /\ \A session \in ExporterSessions, p \in ProductIds,
          weightText \in NumericWeights, countText \in NumericCounts :
            ParseDecimal(weightText).val <= 0 \/ ParseInt(countText).val <= 0 =>
                PostDecision(session, p, weightText, countText)
                    = Respond("invalid_quantity", 0)
    /\ \A w \in InFlight : req[w].package_weight > 0 /\ req[w].package_count > 0

\* The step that returns the invalid-quantity error changes no table,
\* transaction or request in progress.
InvalidQuantityChangesNothing ==
    response' # response /\ response'.outcome = "invalid_quantity" =>
        UNCHANGED <<products, packages, tx, pc, req, applied>>

Uniqueness ==
    /\ \A k1 \in packages, k2 \in packages :
           k1.batch_number = k2.batch_number => k1 = k2
    /\ \A p1 \in ProductIds, p2 \in ProductIds :
           /\ products[p1].exists /\ products[p2].exists
           /\ products[p1].support_code = products[p2].support_code
           => p1 = p2

\* C8 witness: the generator has repeated a stored batch number and the
\* insert was refused, with two packages and two products stored.
UniquenessWitness ==
    /\ response.outcome = "unhandled_integrity_error"
    /\ packages # {}
    /\ \A p \in ProductIds : products[p].exists

\* C9 (collision retry) as stated: a generated batch number equal to a stored
\* one is regenerated, so no package creation ends with the collision
\* surfaced to the caller.
CollisionNotSurfaced ==
    response.outcome # "unhandled_integrity_error"

\* C10 (artifact failure isolation) as stated: after a package creation that
\* failed while producing its QR code, a package row without a QR code is
\* stored and its deduction stands.
QrFailureKeepsPackage ==
    response.outcome = "unhandled_qr_failed" =>
        \E k \in packages : ~k.qr_code /\ k.batch_number \in applied

\* A purchase request of this exporter for this product is stored as approved.
ApprovedRequestExists(product_id, buyer_company) ==
    \E r \in RequestIds :
        /\ requests[r].exists
        /\ requests[r].product = product_id
        /\ requests[r].buyer_company = buyer_company
        /\ requests[r].status = "approved"

\* C11 (approved-request precondition) as stated: when a package creation
\* commits, an approved purchase request of the creating exporter for the
\* product is stored.
CreationNeedsApproval ==
    [][\A w \in Workers :
          TxDeductCommit(w) =>
              ApprovedRequestExists(req[w].product_id, req[w].company)]_vars

\* C12 (status changed by the owner only) as stated: when confirm_request or
\* reject_request changes a request, the session is a farming-company session
\* of the request's owner_company.
StatusChangedByOwnerOnly ==
    [][\A session \in Sessions, pk \in RequestIds,
          status \in {"approved", "rejected"} :
            UpdateRequestStatus(session, pk, status) /\ requests' # requests =>
                /\ session.company_type = "shrimp"
                /\ session.company_id = requests[pk].owner_company]_vars

\* C13 (weight written by package creation only) as stated: a stored
\* product's weight changes only in the step that commits a package creation
\* for it, and only to a smaller value.
WeightOnlyDecrementedByCreation ==
    [][\A p \in ProductIds :
          /\ products[p].exists /\ products'[p].exists
          /\ products'[p].weight # products[p].weight
          => /\ \E w \in Workers : TxDeductCommit(w) /\ req[w].product_id = p
             /\ products'[p].weight < products[p].weight]_vars

\* C14 (effect of a successful creation) as stated: the committing step adds
\* exactly one package row, with the posted unit weight and count, the
\* product, its owning company, the session's exporter and a generated batch
\* number, and lowers the product's weight by unit weight * count.
CreationEffect ==
    [][\A w \in Workers :
          TxDeductCommit(w) =>
              LET created == packages' \ packages
                  p == req[w].product_id
              IN  /\ Cardinality(created) = 1
                  /\ \A k \in created :
                         /\ k.package_weight = req[w].package_weight
                         /\ k.quantity = req[w].package_count
                         /\ k.shrimp_product = p
                         /\ k.farming_company = products[p].company
                         /\ k.exporting_company = req[w].company
                         /\ k.batch_number \in BatchNumbers
                  /\ products'[p].weight =
                         products[p].weight
                             - req[w].package_weight * req[w].package_count]_vars

\* C15 (expiration default) as stated: a package created by
\* CreatePackageView.post has expiration_date = production_date + 365 days,
\* whatever the clock shows at each read.
ExpirationIsProductionPlusShelfLife ==
    [][\A w \in Workers :
          TxDeductCommit(w) =>
              \A k \in packages' \ packages :
                  k.expiration_date = k.production_date + ShelfLifeDays]_vars

\* C16 (date order) as stated: every stored package expires after its
\* production date.
ExpirationAfterProduction ==
    \A k \in packages : k.expiration_date > k.production_date

\* Every stored package has a batch number.
BatchNumberAssigned ==
    \A k \in packages : k.batch_number \in BatchNumbers

\* Every stored package is stored after the step with the batch number it had.
BatchNumberUnchanged ==
    \A k \in packages :
        \E saved \in packages' :
            saved.id = k.id /\ saved.batch_number = k.batch_number

\* C17 (batch number immutable): a stored package has a batch number from its
\* first save on, and no later save, QR regeneration or deduction changes it.
BatchNumberKept ==
    []BatchNumberAssigned /\ [][BatchNumberUnchanged]_vars

\* C17 witness: a package whose deduction was committed has since been saved
\* through the admin form with another production date and had its QR code
\* regenerated.
BatchNumberKeptWitness ==
    \E k \in packages :
        /\ k.production_date # 0
        /\ renders[k.id] = MaxRenders
        /\ k.batch_number \in applied

\* Every stored product has a support code.
SupportCodeAssigned ==
    \A p \in ProductIds :
        products[p].exists => products[p].support_code \in SupportCodes

\* Every stored product is stored after the step with the support code it had.
SupportCodeUnchanged ==
    \A p \in ProductIds :
        products[p].exists =>
            /\ products'[p].exists
            /\ products'[p].support_code = products[p].support_code

\* C18 (support code immutable): a stored product has a support code from its
\* first save on, and product edit, the admin form and package creation leave
\* it unchanged.
SupportCodeKept ==
    []SupportCodeAssigned /\ [][SupportCodeUnchanged]_vars

\* C18 witness: a product with a package created from it has since been
\* edited to a negative weight.
SupportCodeKeptWitness ==
    \E p \in ProductIds :
        /\ products[p].exists
        /\ PackagesOf(p) # {}
        /\ products[p].weight < 0

\* C19 (QR regeneration frame): the admin's generate-QR-codes action leaves
\* every product, the number of packages and every column of every package
\* other than qr_code as they were.
RegenerationChangesOnlyQrCode ==
    [][\A queryset \in SUBSET packages, done \in SUBSET packages :
          GenerateQrCodes(queryset, done) =>
              /\ products' = products
              /\ Cardinality(packages') = Cardinality(packages)
              /\ \A k \in packages :
                     \E saved \in packages' :
                         /\ [saved EXCEPT !.qr_code = k.qr_code] = k
                         /\ k \notin done => saved = k]_vars

\* C19 witness: with two packages stored, one of two units, a QR code has
\* been regenerated.
RegenerationChangesOnlyQrCodeWitness ==
    /\ Cardinality(packages) = MaxPackages
    /\ \E k \in packages : k.quantity > 1 /\ renders[k.id] > 1

\* C20 (idempotent generation) as stated: the QR image of a stored package
\* that has a QR code is not rendered again.
ArtifactRenderedOnce ==
    [][\A k \in packages : k.qr_code => renders'[k.id] = renders[k.id]]_vars

\* The ways CreatePackageView.post is left by an exception no except clause
\* catches.
UnhandledOutcomes ==
    {"unhandled_invalid_input", "unhandled_integrity_error",
     "unhandled_qr_failed"}

\* C21 (every failure reported) as stated: no package-creation request ends
\* with an exception leaving the handler; each one that creates no package
\* ends with the handler's own error response.
EveryFailureReported ==
    response.outcome \notin UnhandledOutcomes

\* C22 (a product is deleted only by its owner) as stated: a step of
\* DeleteProductView that removes a product is taken under a session of the
\* farming company that owns the product; under any other session the
\* product, its packages and its requests stay.
DeletedByOwnerOnly ==
    [][\A session \in Sessions, product_id \in ProductIds :
          (/\ DeleteProduct(session, product_id)
           /\ products[product_id].exists
           /\ ShrimpCompanyFromSession(session) # products[product_id].company)
          => UNCHANGED <<products, packages, requests>>]_vars

\* Every stored package references a stored product, farming company and
\* exporting company.
PackageReferencesExist ==
    \A k \in packages :
        /\ products[k.shrimp_product].exists
        /\ k.farming_company \in companies.farming
        /\ k.exporting_company \in companies.exporting

\* Every stored purchase request references a stored product, buyer and owner.
RequestReferencesExist ==
    \A r \in RequestIds :
        requests[r].exists =>
            /\ products[requests[r].product].exists
            /\ requests[r].buyer_company \in companies.exporting
            /\ requests[r].owner_company \in companies.farming

\* C23 (referential integrity under deletion): in every reachable state the
\* rows a package or a purchase request references are stored; the deletion
\* of a product or a company removes the rows that reference it in the same
\* step.
ReferentialIntegrity ==
    /\ PackageReferencesExist
    /\ RequestReferencesExist
    /\ \A p \in ProductIds :
           products[p].exists => products[p].company \in companies.farming

\* C23 witness: a package was stored and a purchase request was made, and
\* a deletion has removed both with the row they referenced.
ReferentialIntegrityWitness ==
    /\ applied # {}
    /\ packages = {}
    /\ nextRequestId > 1
    /\ \A r \in RequestIds : ~requests[r].exists

\* Every stored purchase request has a status of STATUS_CHOICES.
StatusIsAChoice ==
    \A r \in RequestIds :
        requests[r].exists => requests[r].status \in StatusChoices

\* A purchase request appears only in a step of an exporting company's
\* session, as pending, with the owner and the support code its product has
\* in that step.
RequestCreatedAsStated ==
    \A r \in RequestIds :
        ~requests[r].exists /\ requests'[r].exists =>
            /\ \E session \in Sessions, product_id \in ProductIds :
                   /\ session.company_type = "export"
                   /\ RequestProduct(session, product_id)
            /\ requests'[r].status = "pending"
            /\ products[requests'[r].product].exists
            /\ requests'[r].owner_company = products[requests'[r].product].company
            /\ requests'[r].support_code =
                   products[requests'[r].product].support_code

\* A purchase request that stays stored keeps its support code.
SnapshotUnchanged ==
    \A r \in RequestIds :
        requests[r].exists /\ requests'[r].exists =>
            requests'[r].support_code = requests[r].support_code

NeverBackToPending ==
    [][\A r \in RequestIds :
          requests[r].exists /\ requests'[r].exists =>
              /\ requests[r].status # "pending"
                     => requests'[r].status \in {"approved", "rejected"}
              /\ requests'[r].status # requests[r].status
                     => requests'[r].status \in {"approved", "rejected"}]_vars

\* C29 witness: a request has left pending and is rejected, and another
\* request has been deleted.
NeverBackToPendingWitness ==
    /\ nextRequestId > MaxRequests
    /\ \E r \in RequestIds : requests[r].exists /\ requests[r].status = "rejected"
    /\ \E r \in RequestIds : ~requests[r].exists

\* C25 (QR rendered after the commit) as stated: a package whose QR image
\* has been rendered is a stored package whose deduction is committed, so no
\* image is rendered while the creating transaction is open.
RenderedAfterCommit ==
    \A i \in PackageIds :
        renders[i] > 0 =>
            /\ ~(tx.open /\ tx.package.id = i)
            /\ \E k \in packages : k.id = i /\ k.batch_number \in applied

\* C26 (exact deducted total) as stated: when a package creation commits,
\* the weight written is the weight the request read less the stored
\* package's package_weight * quantity, and the total weight of the payload
\* built for the package is that same amount.
DeductedTotalExact ==
    [][\A w \in Workers :
          TxDeductCommit(w) /\ response'.outcome = "created" =>
              LET k == tx.package
                  p == req[w].product_id
                  total == k.package_weight * k.quantity
              IN  /\ req[w].shrimp_product.weight - products'[p].weight = total
                  /\ payloads[k.id][7].val = total]_vars

\* C27 (payload deterministic) as stated: the payload the creation built for
\* a package is the text a second build gives while the package, its product
\* and its companies are stored as they were when it was built.
PayloadDeterministic ==
    tx.open => payloads[tx.package.id] = StoredQrData(tx.package)

\* C28 (frame of package creation) as stated: the step that commits a
\* package creation changes the weight of the selected product and nothing
\* else of it, adds the package row, and leaves every other product, every
\* stored package and every purchase request as they were; a request that
\* ends without a package leaves all three tables as they were.
CreationFrame ==
    [][\A w \in Workers :
          /\ TxDeductCommit(w) /\ response'.outcome = "created" =>
                 LET p == req[w].product_id
                 IN  /\ products[p].exists
                     /\ products' =
                            [products EXCEPT ![p].weight = products'[p].weight]
                     /\ packages' = packages \cup {tx.package}
                     /\ requests' = requests
          /\ pc[w] # "idle" /\ pc'[w] = "idle" /\ response'.outcome # "created"
                 => UNCHANGED <<products, packages, requests>>]_vars

\* The session holds company_type 'export' and the id of a stored exporting
\* company.
ExporterSession(session) ==
    /\ session.company_type = "export"
    /\ session.company_id \in companies.exporting

\* Whatever is posted, a request under a session that is not an exporter's,
\* or under a flushed session, is answered with the redirect to login; the
\* package of the open transaction has the exporter the request was let in
\* with.
GateDecision ==
    /\ \A session \in Sessions, product_id \in PostedProductIds,
          weightText \in PostedPackageWeights, countText \in PostedPackageCounts :
            /\ ~ExporterSession(session) =>
                   PostDecision(session, product_id, weightText, countText)
                       = Respond("login", 0)
            /\ PostDecision(Flush(session), product_id, weightText, countText)
                   = Respond("login", 0)
    /\ tx.open => tx.package.exporting_company = req[tx.owner].company

\* A request goes on to the transaction only under an exporter's session,
\* whose company it keeps; a package row appears only as the package of the
\* open transaction; the step that answers with the redirect to login writes
\* no package and no weight.
GateStep ==
    /\ \A w \in Workers :
           pc[w] = "idle" /\ pc'[w] = "checked" =>
               \E session \in Sessions :
                   /\ ExporterSession(session)
                   /\ req'[w].company = session.company_id
    /\ \A k \in packages' \ packages : tx.open /\ k = tx.package
    /\ response'.outcome = "login" /\ response.outcome # "login"
           => UNCHANGED <<products, packages>>

\* C30 (creation gated on the session): CreatePackageView.post writes no
\* package and no weight unless the session holds company_type 'export' and
\* the id of a stored exporting company; a package it creates has that
\* company as exporting_company; after logout every request is redirected to
\* login and writes nothing.
SessionGate ==
    []GateDecision /\ [][GateStep]_vars

\* C30 witness: a package created under an exporter's session is stored, and
\* a later request has been redirected to login.
SessionGateWitness ==
    /\ response.outcome = "login"
    /\ \E k \in packages :
           k.batch_number \in applied /\ k.exporting_company \in companies.exporting

====
